---- MODULE Spec2Model ----
(***************************************************************************)
(* Model of the picoIMU firmware (picoIMU.ino): the serial framing codec,  *)
(* the byte-at-a-time frame parser, the message dispatcher and the latched *)
(* telemetry state (orientation, linear acceleration, integrated velocity, *)
(* home reference).                                                        *)
(*                                                                         *)
(* Bytes are integers 0..255, uint16 values are integers 0..65535.         *)
(* A float is modelled by the integer n of its value n * 2^-s, where the   *)
(* scale s is fixed per quantity (angles: degrees, s = 0); putF32/getF32   *)
(* compute the IEEE-754 single-precision byte image of such a value.       *)
(***************************************************************************)
EXTENDS Integers, Sequences, FiniteSets, TLC

(* ---------------- protocol constants ---------------- *)
START1 == 66
START2 == 82
MSG_GET_IMU == 257
MSG_SET_HOME == 258
MSG_RESET_VEL == 259
MSG_RESP_IMU == 33025
MSG_ACK == 32768
MSG_NACK == 32769
ERR_BAD_LENGTH == 1
ERR_UNKNOWN_MSG == 2
ERR_MALFORMED == 3
DEVICE_ID == 1
HOST_ID == 0
BROADCAST_ID == 255
MAX_PAYLOAD == 128

(* sizeof(buf) in respondIMU: 4 + 1 + 1 + 4*9 *)
RESP_IMU_LEN == 42

(* the null payload pointer passed to sendMsg by the ACK call sites *)
nullptr == << >>

(* ---------------- packing helpers ---------------- *)
RECURSIVE Pow2(_)
Pow2(k) == IF k = 0 THEN 1 ELSE 2 * Pow2(k - 1)

RECURSIVE SumRange(_, _, _)
SumRange(s, lo, hi) ==
    IF lo > hi THEN 0
    ELSE IF lo = hi THEN s[lo]
    ELSE LET mid == (lo + hi) \div 2
         IN  SumRange(s, lo, mid) + SumRange(s, mid + 1, hi)

SumBytes(s) == SumRange(s, 1, Len(s))

putLE16BigEndian(v) == << (v \div 256) % 256, v % 256 >>
putLE16(v) == << v % 256, (v \div 256) % 256 >>

putLE32(v) == << v % 256, (v \div 256) % 256, (v \div 65536) % 256, (v \div 16777216) % 256 >>

RECURSIVE Log2Floor(_)
Log2Floor(n) == IF n < 2 THEN 0 ELSE 1 + Log2Floor(n \div 2)

Abs(n) == IF n < 0 THEN -n ELSE n

(* putF32 of the float whose value is n * 2^-s (|n| < 2^24, so the value   *)
(* is exactly representable): sign bit, biased exponent, 23-bit mantissa,  *)
(* written little-endian.                                                  *)
putF32s(n, s) ==
    IF n = 0 THEN << 0, 0, 0, 0 >>
    ELSE LET a    == Abs(n)
             e    == Log2Floor(a)
             mant == (a - Pow2(e)) * Pow2(23 - e)
             ex   == e - s + 127
             sign == IF n < 0 THEN 1 ELSE 0
         IN  << mant % 256,
                (mant \div 256) % 256,
                (ex % 2) * 128 + (mant \div 65536),
                sign * 128 + (ex \div 2) >>

putF32(n) == putF32s(n, 0)

(* Value read by memcpy(&f, p, 4) from four little-endian bytes, in units  *)
(* of 2^-s, for the byte images of floats that are whole numbers of such   *)
(* units; any other image (a finer fraction, a denormal, an infinity, a    *)
(* NaN) is outside the modelled float domain and reads as NotAnInteger.    *)
NotAnInteger == 1073741824

getF32s(p, s) ==
    LET sign == p[4] \div 128
        ex   == (p[4] % 128) * 2 + (p[3] \div 128)
        mant == (p[3] % 128) * 65536 + p[2] * 256 + p[1]
        full == 8388608 + mant
        sh   == 150 - s - ex
    IN  IF ex = 0 /\ mant = 0 THEN 0
        ELSE IF sh >= 0 /\ sh <= 23 /\ full % Pow2(sh) = 0
             THEN (IF sign = 1 THEN -1 ELSE 1) * (full \div Pow2(sh))
             ELSE NotAnInteger

getF32(p) == getF32s(p, 0)

checksum16(data) == SumBytes(data) % 65536

(* The bytes sendMsg hands to Serial.write: header, payload (when plen is  *)
(* non-zero and the pointer is not null), checksum tail.                   *)
sendMsg(msgId, src, dst, payload, plen) ==
    LET hdr   == << START1, START2 >> \o putLE16(plen) \o putLE16(msgId) \o << src, dst >>
        body  == IF plen # 0 /\ payload # nullptr THEN SubSeq(payload, 1, plen) ELSE << >>
        cksum == (checksum16(hdr) + checksum16(body)) % 65536
    IN  hdr \o body \o putLE16(cksum)

(* ---------------- telemetry arithmetic ---------------- *)
(* Angles are integer degrees.  Linear acceleration is held in units of    *)
(* 2^-ACC_SCALE m/s^2, velocity in units of 2^-VEL_SCALE m/s, time in      *)
(* microseconds advancing in steps of TIME_QUANTUM_US = 2^-2 s, so that    *)
(* v += a * dt is exact: (a / 2^6) * (q / 2^2) = a * q / 2^8.              *)
ACC_SCALE == 6
VEL_SCALE == 8
TIME_QUANTUM_US == 250000

RECURSIVE wrap180(_)
wrap180(aDeg) ==
    IF aDeg > 180 THEN wrap180(aDeg - 360)
    ELSE IF aDeg < -180 THEN wrap180(aDeg + 360)
    ELSE aDeg

(* LA_DEADBAND = 0.05 m/s^2: |a| > 0.05 for a = n / 64 is 100 * |n| > 320 *)
AboveDeadband(n) == 100 * Abs(n) > 5 * Pow2(ACC_SCALE)

(* dt < 0.5f, dt = (now - last_la_us) * 1e-6f: 500000 us multiplies to     *)
(* exactly 0.5f and is rejected.                                           *)
DtGuard(dtUs) == dtUs < 500000

(* expf(-VEL_DAMP * dt) in units of 2^-14, dt = q time quanta of 0.25 s:   *)
(* exp(-0.075) = 0.92774, times 16384 = 15200.                             *)
RECURSIVE ExpDecayQ14(_)
ExpDecayQ14(q) ==
    IF q = 0 THEN 16384 ELSE (ExpDecayQ14(q - 1) * 15200 + 8192) \div 16384

(* round-to-nearest of n * m / 2^14, symmetric in the sign of n *)
MulQ14(n, m) ==
    LET r == (Abs(n) * m + 8192) \div 16384 IN IF n < 0 THEN -r ELSE r

(* one axis of the integrator, lines 296-301 *)
IntegrateAxis(v, a, dtUs) ==
    LET q == dtUs \div TIME_QUANTUM_US
    IN  IF AboveDeadband(a) THEN v + a * q ELSE MulQ14(v, ExpDecayQ14(q))

(* ---------------- program state ---------------- *)
VARIABLES
    ps, pl_len, msg_id, src_id, dst_id, recv_ck, calc_ck, payload_buf, payload_idx,
    rpy, rv_status, lax, lay, laz, la_status, vx, vy, vz,
    homeRoll, homePitch, homeYaw, homeSet, last_la_us,
    now,        \* the value micros() returns
    rx,         \* bytes available in the Serial receive buffer
    wire,       \* bytes the host has sent that have not arrived yet
    tx,         \* frames written by sendMsg since the host's last transmission
    sent,       \* the host's last transmission
    startPs,    \* the parser state that met the first byte of its frame
    accepted    \* frames that reached the checksum-match branch since then

parserVars == << ps, pl_len, msg_id, src_id, dst_id, recv_ck, calc_ck, payload_buf, payload_idx >>
sensorVars == << rpy, rv_status, lax, lay, laz, la_status >>
homeVars   == << homeRoll, homePitch, homeYaw, homeSet >>
velVars    == << vx, vy, vz >>
hostVars   == << wire, sent, startPs >>
vars == << parserVars, sensorVars, homeVars, velVars, last_la_us, now, rx, tx, hostVars, accepted >>

(* ---------------- responses ---------------- *)
ImuPayloadVelocityLast ==
    LET r == IF homeSet THEN wrap180(rpy.roll  - homeRoll)  ELSE rpy.roll
        p == IF homeSet THEN wrap180(rpy.pitch - homePitch) ELSE rpy.pitch
        y == IF homeSet THEN wrap180(rpy.yaw   - homeYaw)   ELSE rpy.yaw
    IN  putLE32(now) \o << rv_status, la_status >>
        \o putF32(r) \o putF32(p) \o putF32(y)
        \o putF32s(lax, ACC_SCALE) \o putF32s(lay, ACC_SCALE) \o putF32s(laz, ACC_SCALE)
        \o putF32s(vx, VEL_SCALE) \o putF32s(vy, VEL_SCALE) \o putF32s(vz, VEL_SCALE)

ImuPayloadYawFirst ==
    LET r == IF homeSet THEN wrap180(rpy.roll  - homeRoll)  ELSE rpy.roll
        p == IF homeSet THEN wrap180(rpy.pitch - homePitch) ELSE rpy.pitch
        y == IF homeSet THEN wrap180(rpy.yaw   - homeYaw)   ELSE rpy.yaw
    IN  putLE32(now) \o << rv_status, la_status >>
        \o putF32(y) \o putF32(p) \o putF32(r)
        \o putF32s(vx, VEL_SCALE) \o putF32s(vy, VEL_SCALE) \o putF32s(vz, VEL_SCALE)
        \o putF32s(lax, ACC_SCALE) \o putF32s(lay, ACC_SCALE) \o putF32s(laz, ACC_SCALE)

(* buf of respondIMU, lines 119-138 *)
ImuPayload ==
    LET r == IF homeSet THEN wrap180(rpy.roll  - homeRoll)  ELSE rpy.roll
        p == IF homeSet THEN wrap180(rpy.pitch - homePitch) ELSE rpy.pitch
        y == IF homeSet THEN wrap180(rpy.yaw   - homeYaw)   ELSE rpy.yaw
    IN  putLE32(now) \o << rv_status, la_status >>
        \o putF32(r) \o putF32(p) \o putF32(y)
        \o putF32s(vx, VEL_SCALE) \o putF32s(vy, VEL_SCALE) \o putF32s(vz, VEL_SCALE)
        \o putF32s(lax, ACC_SCALE) \o putF32s(lay, ACC_SCALE) \o putF32s(laz, ACC_SCALE)

WriteTwice(frame) == tx' = Append(Append(tx, frame), frame)
Write(frame) == tx' = Append(tx, frame)

respondIMU(reqSrc) ==
    Write(sendMsg(MSG_RESP_IMU, DEVICE_ID, reqSrc, ImuPayload, RESP_IMU_LEN))

setHomeCurrentFlagless ==
    /\ homeRoll' = rpy.roll /\ homePitch' = rpy.pitch /\ homeYaw' = rpy.yaw
    /\ UNCHANGED homeSet

setHomeCurrent ==
    /\ homeRoll' = rpy.roll /\ homePitch' = rpy.pitch /\ homeYaw' = rpy.yaw
    /\ homeSet' = TRUE

(* the four bytes at payload + off *)
BufAt(payload, off) == [i \in 1..4 |-> payload[off + i - 1]]

(* if(len != 12), line 149 *)
HomeLenBadLoose(len) == len > 12
HomeLenBad(len) == len # 12

setHomeExplicit(payload, len) ==
    IF HomeLenBad(len)
    THEN /\ Write(sendMsg(MSG_NACK, DEVICE_ID, HOST_ID, << ERR_BAD_LENGTH >>, 1))
         /\ UNCHANGED homeVars
    ELSE /\ homeRoll'  = getF32(BufAt(payload, 0))
         /\ homePitch' = getF32(BufAt(payload, 4))
         /\ homeYaw'   = getF32(BufAt(payload, 8))
         /\ homeSet' = TRUE
         /\ Write(sendMsg(MSG_ACK, DEVICE_ID, HOST_ID, nullptr, 0))

resetVelocityKeepingBaseline ==
    /\ vx' = 0 /\ vy' = 0 /\ vz' = 0
    /\ UNCHANGED last_la_us
    /\ Write(sendMsg(MSG_ACK, DEVICE_ID, HOST_ID, nullptr, 0))

resetVelocity ==
    /\ vx' = 0 /\ vy' = 0 /\ vz' = 0
    /\ last_la_us' = now
    /\ Write(sendMsg(MSG_ACK, DEVICE_ID, HOST_ID, nullptr, 0))

(* ---------------- host transmissions ---------------- *)
FlipByte(b, k) == IF (b \div Pow2(k)) % 2 = 1 THEN b - Pow2(k) ELSE b + Pow2(k)

(* bytes with bit number `bit` flipped (bit 8*i + k is bit k of byte i,    *)
(* counted from 0); -1 flips nothing                                       *)
FlipBit(bytes, bit) ==
    IF bit < 0 THEN bytes
    ELSE [i \in 1..Len(bytes) |->
            IF i = (bit \div 8) + 1 THEN FlipByte(bytes[i], bit % 8) ELSE bytes[i]]

(* the valid frame of a transmission, encoded as sendMsg encodes *)
Encoded(t) == sendMsg(t.msgId, t.src, t.dst, t.payload, Len(t.payload))

FrameLen(t) == 8 + Len(t.payload) + 2

(* what the host puts on the wire: garbage, then the frame, one bit of it  *)
(* possibly flipped                                                        *)
TxBytes(t) == t.prefix \o FlipBit(Encoded(t), t.flip)

NoTransmission ==
    [msgId |-> 0, src |-> 0, dst |-> 0, payload |-> << >>, prefix |-> << >>,
     flip |-> -1, hold |-> 0]

(* ---------------- parser ---------------- *)
resetParserStateOnly ==
    /\ ps' = "PS_FIND_S1"
    /\ UNCHANGED << pl_len, msg_id, src_id, dst_id, recv_ck, calc_ck, payload_idx >>

resetParser ==
    /\ ps' = "PS_FIND_S1" /\ pl_len' = 0 /\ msg_id' = 0 /\ src_id' = 0 /\ dst_id' = 0
    /\ recv_ck' = 0 /\ calc_ck' = 0 /\ payload_idx' = 0

Add16(ck, b) == (ck + b) % 65536

(* calc_ck = b on the first marker: the accumulator restarts, line 180 *)
SeedChecksumAccumulating(ck, b) == Add16(ck, b)
SeedChecksum(ck, b) == b

(* recv_ck == calc_ck, line 209 *)
CkMatchAssigning(recv, calc) == calc # 0
CkMatch(recv, calc) == recv = calc

(* dst_id == DEVICE_ID || dst_id == 0xFF, line 210 *)
ForThisNodeUnfiltered(dst) == TRUE
ForThisNode(dst) == dst = DEVICE_ID \/ dst = BROADCAST_ID

(* if(pl_len!=0) of MSG_GET_IMU, line 213 *)
GetImuBadLengthLoose(len) == len > 8
GetImuBadLength(len) == len # 0

(* if(pl_len > MAX_PAYLOAD), line 198 *)
OversizeOffByOne(len) == len > MAX_PAYLOAD + 1
OversizeUnchecked(len) == FALSE
Oversize(len) == len > MAX_PAYLOAD

(* if(payload_idx >= pl_len), line 203 *)
PayloadDoneStrict(idx, len) == idx > len
PayloadDone(idx, len) == idx >= len

(* the default branch of the switch, lines 224-226 *)
unknownMsgSilent == UNCHANGED tx
unknownMsg == Write(sendMsg(MSG_NACK, DEVICE_ID, src_id, << ERR_UNKNOWN_MSG >>, 1))

(* the switch on msg_id, lines 211-227 *)
Dispatch ==
    CASE msg_id = MSG_GET_IMU ->
            /\ IF GetImuBadLength(pl_len)
               THEN Write(sendMsg(MSG_NACK, DEVICE_ID, src_id, << ERR_BAD_LENGTH >>, 1))
               ELSE respondIMU(src_id)
            /\ UNCHANGED << homeVars, velVars, last_la_us >>
      [] msg_id = MSG_SET_HOME ->
            /\ IF pl_len = 0
               THEN setHomeCurrent /\ Write(sendMsg(MSG_ACK, DEVICE_ID, src_id, nullptr, 0))
               ELSE setHomeExplicit(payload_buf, pl_len)
            /\ UNCHANGED << velVars, last_la_us >>
      [] msg_id = MSG_RESET_VEL ->
            /\ IF pl_len # 0
               THEN /\ Write(sendMsg(MSG_NACK, DEVICE_ID, src_id, << ERR_BAD_LENGTH >>, 1))
                    /\ UNCHANGED << velVars, last_la_us >>
               ELSE resetVelocity
            /\ UNCHANGED homeVars
      [] OTHER ->
            /\ unknownMsg
            /\ UNCHANGED << homeVars, velVars, last_la_us >>

(* the checksum-mismatch branch, line 230 *)
nackMalformedToHost == Write(sendMsg(MSG_NACK, DEVICE_ID, HOST_ID, << ERR_MALFORMED >>, 1))
nackMalformed == Write(sendMsg(MSG_NACK, DEVICE_ID, src_id, << ERR_MALFORMED >>, 1))

(* what the checksum-match branch sees, recorded for the properties *)
ParsedFrame ==
    [len |-> pl_len, id |-> msg_id, src |-> src_id, dst |-> dst_id,
     payload |-> [i \in 1..pl_len |-> payload_buf[i - 1]],
     left |-> Len(rx) - 1 + Len(wire)]

Quiet == UNCHANGED << tx, homeVars, velVars, last_la_us, accepted >>

processOneByte(b) ==
    CASE ps = "PS_FIND_S1" ->
            /\ IF b = START1
               THEN calc_ck' = SeedChecksum(calc_ck, b) /\ ps' = "PS_FIND_S2"
               ELSE UNCHANGED << calc_ck, ps >>
            /\ UNCHANGED << pl_len, msg_id, src_id, dst_id, recv_ck, payload_buf, payload_idx >>
            /\ Quiet
      [] ps = "PS_FIND_S2" ->
            /\ IF b = START2
               THEN calc_ck' = Add16(calc_ck, b) /\ ps' = "PS_LEN0"
               ELSE ps' = "PS_FIND_S1" /\ UNCHANGED calc_ck
            /\ UNCHANGED << pl_len, msg_id, src_id, dst_id, recv_ck, payload_buf, payload_idx >>
            /\ Quiet
      [] ps = "PS_LEN0" ->
            /\ pl_len' = b /\ calc_ck' = Add16(calc_ck, b) /\ ps' = "PS_LEN1"
            /\ UNCHANGED << msg_id, src_id, dst_id, recv_ck, payload_buf, payload_idx >>
            /\ Quiet
      [] ps = "PS_LEN1" ->
            /\ pl_len' = pl_len + 256 * b /\ calc_ck' = Add16(calc_ck, b) /\ ps' = "PS_ID0"
            /\ UNCHANGED << msg_id, src_id, dst_id, recv_ck, payload_buf, payload_idx >>
            /\ Quiet
      [] ps = "PS_ID0" ->
            /\ msg_id' = b /\ calc_ck' = Add16(calc_ck, b) /\ ps' = "PS_ID1"
            /\ UNCHANGED << pl_len, src_id, dst_id, recv_ck, payload_buf, payload_idx >>
            /\ Quiet
      [] ps = "PS_ID1" ->
            /\ msg_id' = msg_id + 256 * b /\ calc_ck' = Add16(calc_ck, b) /\ ps' = "PS_SRC"
            /\ UNCHANGED << pl_len, src_id, dst_id, recv_ck, payload_buf, payload_idx >>
            /\ Quiet
      [] ps = "PS_SRC" ->
            /\ src_id' = b /\ calc_ck' = Add16(calc_ck, b) /\ ps' = "PS_DST"
            /\ UNCHANGED << pl_len, msg_id, dst_id, recv_ck, payload_buf, payload_idx >>
            /\ Quiet
      [] ps = "PS_DST" ->
            /\ dst_id' = b /\ calc_ck' = Add16(calc_ck, b)
            /\ IF Oversize(pl_len)
               THEN ps' = "PS_FIND_S1" /\ UNCHANGED payload_idx
               ELSE /\ payload_idx' = 0
                    /\ ps' = IF pl_len = 0 THEN "PS_CK0" ELSE "PS_PAYLOAD"
            /\ UNCHANGED << pl_len, msg_id, src_id, recv_ck, payload_buf >>
            /\ Quiet
      [] ps = "PS_PAYLOAD" ->
            /\ payload_buf' = [payload_buf EXCEPT ![payload_idx] = b]
            /\ payload_idx' = payload_idx + 1
            /\ calc_ck' = Add16(calc_ck, b)
            /\ ps' = IF PayloadDone(payload_idx + 1, pl_len) THEN "PS_CK0" ELSE "PS_PAYLOAD"
            /\ UNCHANGED << pl_len, msg_id, src_id, dst_id, recv_ck >>
            /\ Quiet
      [] ps = "PS_CK0" ->
            /\ recv_ck' = b /\ ps' = "PS_CK1"
            /\ UNCHANGED << pl_len, msg_id, src_id, dst_id, calc_ck, payload_buf, payload_idx >>
            /\ Quiet
      [] ps = "PS_CK1" ->
            /\ IF CkMatch(recv_ck + 256 * b, calc_ck)
               THEN /\ accepted' = Append(accepted, ParsedFrame)
                    /\ IF ForThisNode(dst_id)
                       THEN Dispatch
                       ELSE UNCHANGED << tx, homeVars, velVars, last_la_us >>
               ELSE /\ nackMalformed
                    /\ UNCHANGED << homeVars, velVars, last_la_us, accepted >>
            /\ resetParser
            /\ UNCHANGED payload_buf

(* one iteration of the while loop of pollSerial *)
pollSerial ==
    /\ rx # << >>
    /\ rx' = Tail(rx)
    /\ processOneByte(Head(rx))
    /\ startPs' = IF Len(rx) + Len(wire) = FrameLen(sent) THEN ps ELSE startPs
    /\ UNCHANGED << sensorVars, now, wire, sent >>

(* ---------------- sensor side of loop() ---------------- *)
(* Sensor events are taken at the top of loop(), pollSerial then drains    *)
(* every available byte: an event happens only with the buffer drained.    *)
MaxQuanta == 2

RVSamples ==
    { [e |-> [roll |-> 10, pitch |-> 0,  yaw |-> -10], status |-> 3],
      [e |-> [roll |-> 15, pitch |-> 45, yaw |-> 170], status |-> 2] }

LASamples ==
    { [x |-> 64, y |-> -64, z |-> 0, status |-> 3],
      [x |-> 0,  y |-> 3,   z |-> 0, status |-> 1] }

sensorResetZeroingVelocity ==
    /\ rx = << >>
    /\ last_la_us' = now
    /\ vx' = 0 /\ vy' = 0 /\ vz' = 0
    /\ UNCHANGED << parserVars, sensorVars, homeVars, now, rx, tx, hostVars, accepted >>

(* bno08x.wasReset(), lines 257-261 *)
sensorReset ==
    /\ rx = << >>
    /\ last_la_us' = now
    /\ UNCHANGED << parserVars, sensorVars, homeVars, velVars, now, rx, tx, hostVars, accepted >>

(* a rotation-vector event, lines 266-282; quaternionToEuler's result is   *)
(* the sample's Euler triple                                               *)
sensorRV(s) ==
    /\ rx = << >>
    /\ rpy' = s.e
    /\ rv_status' = s.status
    /\ UNCHANGED << parserVars, lax, lay, laz, la_status, homeVars, velVars,
                    last_la_us, now, rx, tx, hostVars, accepted >>

(* a linear-acceleration event, lines 284-318 *)
sensorLA(s) ==
    /\ rx = << >>
    /\ lax' = s.x /\ lay' = s.y /\ laz' = s.z
    /\ la_status' = s.status
    /\ LET dtUs == now - last_la_us
       IN  IF DtGuard(dtUs)
           THEN /\ vx' = IntegrateAxis(vx, s.x, dtUs)
                /\ vy' = IntegrateAxis(vy, s.y, dtUs)
                /\ vz' = IntegrateAxis(vz, s.z, dtUs)
           ELSE UNCHANGED velVars
    /\ last_la_us' = now
    /\ UNCHANGED << parserVars, rpy, rv_status, homeVars, now, rx, tx, hostVars, accepted >>

(* micros() advances *)
Tick(q) ==
    /\ rx = << >>
    /\ now + q * TIME_QUANTUM_US <= MaxQuanta * TIME_QUANTUM_US
    /\ now' = now + q * TIME_QUANTUM_US
    /\ UNCHANGED << parserVars, sensorVars, homeVars, velVars, last_la_us, rx, tx,
                    hostVars, accepted >>

(* ---------------- host side ---------------- *)
(* an explicit home reference, and a SetHome payload of a wrong length *)
HomePayload == putF32(170) \o putF32(-20) \o putF32(-550)
Payload8 == SubSeq(HomePayload, 1, 8)

(* payloads of the maximum length *)
FullPayload == [i \in 1..MAX_PAYLOAD |-> (7 * i) % 256]
LongPayload == [i \in 1..MAX_PAYLOAD |-> IF i <= 12 THEN HomePayload[i] ELSE 0]

MsgIds == { MSG_GET_IMU, MSG_SET_HOME, MSG_RESET_VEL, 260 }

(* the header of a frame that declares one payload byte more than the      *)
(* maximum                                                                 *)
OversizeHeader ==
    << START1, START2 >> \o putLE16(MAX_PAYLOAD + 1) \o putLE16(MSG_RESET_VEL)
        \o << 7, DEVICE_ID >>

Frame(id, src, dst, payload, flip, hold) ==
    [msgId |-> id, src |-> src, dst |-> dst, payload |-> payload, prefix |-> << >>,
     flip |-> flip, hold |-> hold]

(* every empty request to the node, and two of them from the host's own    *)
(* identifier; requests with payloads of 8 and of 12 bytes; empty requests *)
(* to another node and to broadcast, and an explicit SetHome to another    *)
(* node; requests whose last byte arrives late; frames with one checksum   *)
(* bit flipped; an unknown request with a payload of the maximum length; a *)
(* request that follows the header of an oversized frame                   *)
Transmissions ==
    { Frame(id, 7, DEVICE_ID, << >>, -1, 0) : id \in MsgIds }
    \cup { Frame(id, HOST_ID, DEVICE_ID, << >>, -1, 0) : id \in { MSG_GET_IMU, MSG_RESET_VEL } }
    \cup { Frame(id, 7, DEVICE_ID, Payload8, -1, 0) : id \in { MSG_GET_IMU, MSG_SET_HOME, 260 } }
    \cup { Frame(id, 7, DEVICE_ID, HomePayload, -1, 0) : id \in { MSG_SET_HOME, MSG_RESET_VEL } }
    \cup { Frame(id, 7, 2, << >>, -1, 0) : id \in MsgIds }
    \cup { Frame(id, 7, BROADCAST_ID, << >>, -1, 0) : id \in { MSG_GET_IMU, MSG_RESET_VEL } }
    \cup { Frame(MSG_SET_HOME, 7, 2, HomePayload, -1, 0) }
    \cup { Frame(id, 7, DEVICE_ID, << >>, -1, 1) : id \in { MSG_GET_IMU, MSG_SET_HOME } }
    \cup { Frame(MSG_GET_IMU, f[1], f[2], << >>, 8 * 9, 0) :
                f \in { << 7, DEVICE_ID >>, << 7, 2 >>, << HOST_ID, DEVICE_ID >> } }
    \cup { Frame(260, 7, DEVICE_ID, LongPayload, -1, 0) }
    \cup { [Frame(MSG_GET_IMU, 7, DEVICE_ID, << >>, -1, 0) EXCEPT !.prefix = OversizeHeader] }

(* the host writes a transmission; its last t.hold bytes arrive later *)
hostSend(t) ==
    /\ rx = << >> /\ wire = << >> /\ sent = NoTransmission
    /\ LET bytes == TxBytes(t)
           n     == Len(bytes) - t.hold
       IN  /\ rx' = SubSeq(bytes, 1, n)
           /\ wire' = SubSeq(bytes, n + 1, Len(bytes))
    /\ sent' = t
    /\ startPs' = "none"
    /\ UNCHANGED << parserVars, sensorVars, homeVars, velVars, last_la_us, now, tx, accepted >>

(* the host has read what the node wrote and is ready to transmit again *)
hostReceive ==
    /\ rx = << >> /\ wire = << >> /\ sent # NoTransmission
    /\ sent' = NoTransmission
    /\ startPs' = "none"
    /\ tx' = << >>
    /\ accepted' = << >>
    /\ UNCHANGED << parserVars, sensorVars, homeVars, velVars, last_la_us, now, rx, wire >>

(* the held-back bytes reach the receive buffer *)
arrive ==
    /\ rx = << >> /\ wire # << >>
    /\ rx' = wire
    /\ wire' = << >>
    /\ UNCHANGED << parserVars, sensorVars, homeVars, velVars, last_la_us, now, tx,
                    sent, startPs, accepted >>

(* ---------------- specifications ---------------- *)
(* the statics' initial values, with setup() run at micros() = 0 *)
InitBesidesVelocity ==
    /\ ps = "PS_FIND_S1" /\ pl_len = 0 /\ msg_id = 0 /\ src_id = 0 /\ dst_id = 0
    /\ recv_ck = 0 /\ calc_ck = 0 /\ payload_idx = 0
    /\ payload_buf = [i \in 0..(MAX_PAYLOAD - 1) |-> 0]
    /\ rpy = [roll |-> 0, pitch |-> 0, yaw |-> 0]
    /\ rv_status = 0 /\ la_status = 0
    /\ lax = 0 /\ lay = 0 /\ laz = 0
    /\ homeRoll = 0 /\ homePitch = 0 /\ homeYaw = 0 /\ homeSet = FALSE
    /\ last_la_us = 0
    /\ now = 0
    /\ tx = << >>
    /\ accepted = << >>

InitFirmware ==
    /\ InitBesidesVelocity
    /\ vx = 0 /\ vy = 0 /\ vz = 0

Init ==
    /\ InitFirmware
    /\ rx = << >> /\ wire = << >>
    /\ sent = NoTransmission
    /\ startPs = "none"

Next ==
    \/ pollSerial
    \/ sensorReset
    \/ \E s \in RVSamples : sensorRV(s)
    \/ \E s \in LASamples : sensorLA(s)
    \/ \E q \in {1, 2} : Tick(q)
    \/ \E t \in Transmissions : hostSend(t)
    \/ arrive
    \/ hostReceive

Spec == Init /\ [][Next]_vars

(* ---------------- the codec and the parser alone ---------------- *)
(* One transmission, fed to the parser byte by byte from Seeking: a valid  *)
(* frame as it is, or after a run of garbage bytes, or with one bit        *)
(* flipped.                                                                *)
MaxGarbage == 2

GarbageBytes == { 0, START1, START2 }

RECURSIVE SeqsUpTo(_, _)
SeqsUpTo(S, n) ==
    IF n = 0 THEN { << >> }
    ELSE LET shorter == SeqsUpTo(S, n - 1)
         IN  shorter \cup { Append(q, b) : q \in shorter, b \in S }

(* a two-byte payload equal to the checksum of the same header with a zero *)
(* length field                                                            *)
AliasPayload(id, src, dst) ==
    putLE16(checksum16(<< START1, START2, 0, 0 >> \o putLE16(id) \o << src, dst >>))

(* a payload that is itself an encoded frame *)
EmbeddedPayload == sendMsg(MSG_GET_IMU, HOST_ID, DEVICE_ID, nullptr, 0)

WireIds  == { MSG_GET_IMU, MSG_SET_HOME, 260, 21058 }
WireSrcs == { HOST_ID, START1 }
WireDsts == { DEVICE_ID, 2 }

ShortPayloads(id, src, dst) ==
    { << >>, << 5 >>, AliasPayload(id, src, dst), Payload8, HomePayload, EmbeddedPayload }

WireFrame(id, src, dst, payload, prefix, flip) ==
    [msgId |-> id, src |-> src, dst |-> dst, payload |-> payload, prefix |-> prefix,
     flip |-> flip, hold |-> 0]

WireInputs ==
    UNION { { WireFrame(h[1], h[2], h[3], p, g, -1) :
                p \in ShortPayloads(h[1], h[2], h[3]) \cup { FullPayload },
                g \in SeqsUpTo(GarbageBytes, MaxGarbage) }
            \cup
            UNION { { WireFrame(h[1], h[2], h[3], p, << >>, k) :
                        k \in 0..(8 * (8 + Len(p) + 2) - 1) } :
                    p \in ShortPayloads(h[1], h[2], h[3]) }
          : h \in WireIds \X WireSrcs \X WireDsts }

InitWire ==
    /\ InitFirmware
    /\ sent \in WireInputs
    /\ rx = TxBytes(sent)
    /\ wire = << >>
    /\ startPs = "none"

NextWire == pollSerial

SpecWire == InitWire /\ [][NextWire]_vars

(* ---------------- the decay at the bottom of the float range ---------------- *)
(* The decay `v *= expf(-VEL_DAMP * dt)` applied to velocities that have   *)
(* decayed to the smallest magnitudes a float holds.  In this              *)
(* specification vx, vy, vz count units of 2^-149, the smallest positive   *)
(* float: the values 1..MaxSubnormal are subnormal floats, and the product *)
(* with the decay factor is computed exactly, then rounded.                *)
MaxSubnormal == 40

(* expf(-VEL_DAMP * dt) as a float, in units of 2^-24, for dt = q time     *)
(* quanta of 0.25 s: expf(0) = 1, expf(-0.075f) = 0.92774349 (the guard    *)
(* admits no larger dt)                                                    *)
ExpGrowthQ24(q) == CASE q = 0 -> 16777216 [] q = 1 -> 18084402
ExpDecayQ24(q) == CASE q = 0 -> 16777216 [] q = 1 -> 15564953

(* the float product of the subnormal k * 2^-149 and m * 2^-24, rounded to *)
(* nearest, ties to even (IEEE-754 gradual underflow)                      *)
MulSubnormalNearest(k, m) ==
    LET p    == Abs(k) * m
        fl   == p \div 16777216
        rem  == p % 16777216
        r    == IF rem > 8388608 \/ (rem = 8388608 /\ fl % 2 = 1) THEN fl + 1 ELSE fl
    IN  IF k < 0 THEN -r ELSE r

(* the values `v *= decay` can leave: the rounded product, or zero where   *)
(* the build's float multiply flushes subnormal results to zero            *)
DecaySubnormal(k, dtUs) ==
    { MulSubnormalNearest(k, ExpDecayQ24(dtUs \div TIME_QUANTUM_US)), 0 }

(* a linear-acceleration event whose sample is exactly zero on every axis, *)
(* lines 284-318: every axis takes the decay branch                        *)
sensorLAStill ==
    /\ rx = << >>
    /\ lax' = 0 /\ lay' = 0 /\ laz' = 0
    /\ la_status' = 3
    /\ ~AboveDeadband(0)
    /\ LET dtUs == now - last_la_us
       IN  IF DtGuard(dtUs)
           THEN /\ vx' \in DecaySubnormal(vx, dtUs)
                /\ vy' \in DecaySubnormal(vy, dtUs)
                /\ vz' \in DecaySubnormal(vz, dtUs)
           ELSE UNCHANGED velVars
    /\ last_la_us' = now
    /\ UNCHANGED << parserVars, rpy, rv_status, homeVars, now, rx, tx, hostVars, accepted >>

InitDecay ==
    /\ InitBesidesVelocity
    /\ vx \in (-MaxSubnormal)..MaxSubnormal
    /\ vy \in { -7, 7 }
    /\ vz = 0
    /\ rx = << >> /\ wire = << >>
    /\ sent = NoTransmission
    /\ startPs = "none"

NextDecay ==
    \/ sensorLAStill
    \/ \E q \in {1, 2} : Tick(q)

SpecDecay == InitDecay /\ [][NextDecay]_vars

(* ---------------- properties of the codec and the parser ---------------- *)
(* fields of a frame written by sendMsg *)
WrittenLen(f)     == f[3] + 256 * f[4]
WrittenId(f)      == f[5] + 256 * f[6]
WrittenSrc(f)     == f[7]
WrittenDst(f)     == f[8]
WrittenPayload(f) == SubSeq(f, 9, Len(f) - 2)

(* the record the checksum-match branch leaves when it is reached for the  *)
(* transmission's frame on the frame's last byte                           *)
ExpectedFrame(t) ==
    [len |-> Len(t.payload), id |-> t.msgId, src |-> t.src, dst |-> t.dst,
     payload |-> t.payload, left |-> 0]

Transmitted == sent # NoTransmission
Drained == rx = << >> /\ wire = << >>

(* acceptances that happened on a byte of the transmission's frame *)
AcceptedInFrame == { i \in DOMAIN accepted : accepted[i].left < FrameLen(sent) }

AcceptedOnceAtEnd ==
    /\ Cardinality(AcceptedInFrame) = 1
    /\ \A i \in AcceptedInFrame : accepted[i] = ExpectedFrame(sent)

(* C1: a frame encoded by sendMsg and fed byte by byte from Seeking        *)
(* reaches the checksum-match branch exactly once, on its last byte, with  *)
(* pl_len, msg_id, src_id, dst_id and the payload bytes equal to the       *)
(* encoded inputs.                                                         *)
C1_RoundTrip ==
    (Transmitted /\ sent.prefix = << >> /\ sent.flip = -1) =>
        IF Drained THEN accepted = << ExpectedFrame(sent) >> ELSE accepted = << >>

C1_Witness ==
    /\ Transmitted /\ sent.prefix = << >> /\ sent.flip = -1 /\ Drained
    /\ Len(sent.payload) = MAX_PAYLOAD
    /\ accepted = << ExpectedFrame(sent) >>

(* C2 as stated: after any run of garbage bytes the valid frame that       *)
(* follows is accepted exactly once.                                       *)
C2_ResyncAnyGarbage ==
    (Transmitted /\ sent.flip = -1 /\ Drained) => AcceptedOnceAtEnd

(* C2, amended: after a run of garbage bytes that leaves the parser in     *)
(* Seeking, the valid frame that follows is accepted exactly once, on its  *)
(* last byte, and not before.                                              *)
C2_ResyncFromSeeking ==
    (Transmitted /\ sent.flip = -1 /\ startPs = "PS_FIND_S1") =>
        IF Drained THEN AcceptedOnceAtEnd ELSE AcceptedInFrame = { }

C2_Witness ==
    /\ Transmitted /\ sent.flip = -1 /\ Drained
    /\ sent.prefix = << START1, 0 >>
    /\ startPs = "PS_FIND_S1"
    /\ AcceptedOnceAtEnd

(* the bits of the header and of the payload of the transmission's frame *)
HeaderOrPayloadBit(t) == t.flip >= 0 /\ t.flip < 8 * (8 + Len(t.payload))
(* those of message id, source, destination and payload *)
IdAddressOrPayloadBit(t) == t.flip >= 8 * 4 /\ t.flip < 8 * (8 + Len(t.payload))

(* C3 as stated: a valid frame with one bit of its header or payload       *)
(* flipped never reaches the checksum-match branch.                        *)
C3_AnyHeaderFlipRejected ==
    (Transmitted /\ HeaderOrPayloadBit(sent)) => accepted = << >>

(* C3, amended: a valid frame with one bit of its message id, source,      *)
(* destination or payload flipped never reaches the checksum-match branch; *)
(* its last byte takes the checksum-mismatch branch (one NACK, Malformed). *)
C3_FieldFlipRejected ==
    (Transmitted /\ IdAddressOrPayloadBit(sent)) =>
        /\ accepted = << >>
        /\ Drained => /\ Len(tx) = 1
                      /\ WrittenId(tx[1]) = MSG_NACK
                      /\ WrittenPayload(tx[1]) = << ERR_MALFORMED >>
        /\ ~Drained => tx = << >>

C3_Witness ==
    /\ Transmitted /\ IdAddressOrPayloadBit(sent) /\ Drained
    /\ sent.flip >= 8 * 8
    /\ accepted = << >>
    /\ Len(tx) = 1 /\ WrittenPayload(tx[1]) = << ERR_MALFORMED >>

(* ---------------- properties of the dispatcher ---------------- *)
getLE32(p) == p[1] + 256 * p[2] + 65536 * p[3] + 16777216 * p[4]

(* a valid frame carrying message id `id`, addressed to the node or to     *)
(* broadcast                                                               *)
CleanRequest(id) ==
    /\ Transmitted /\ sent.flip = -1 /\ sent.msgId = id
    /\ sent.dst \in { DEVICE_ID, BROADCAST_ID }

(* the next byte the parser consumes is the last one of such a frame *)
Completing(id) == CleanRequest(id) /\ Len(rx) = 1 /\ wire = << >>

IsAck(f)     == WrittenId(f) = MSG_ACK /\ WrittenLen(f) = 0 /\ WrittenPayload(f) = << >>
IsNack(f, e) == WrittenId(f) = MSG_NACK /\ WrittenLen(f) = 1 /\ WrittenPayload(f) = << e >>
IsImu(f)     == WrittenId(f) = MSG_RESP_IMU

(* r is d brought into [-180, 180] by whole turns, as the two loops of     *)
(* wrap180 leave it                                                        *)
IsWrapOf(r, d) ==
    /\ r >= -180 /\ r <= 180
    /\ (r - d) % 360 = 0
    /\ (r = 180 => d > 0) /\ (r = -180 => d < 0)

(* the three angles of a telemetry payload are those of the orientation o  *)
(* relative to the home reference h                                        *)
AnglesRelative(p, o, h) ==
    /\ IsWrapOf(getF32(SubSeq(p, 7, 10)),  o.roll  - h.roll)
    /\ IsWrapOf(getF32(SubSeq(p, 11, 14)), o.pitch - h.pitch)
    /\ IsWrapOf(getF32(SubSeq(p, 15, 18)), o.yaw   - h.yaw)

AnglesRaw(p, o) ==
    /\ getF32(SubSeq(p, 7, 10))  = o.roll
    /\ getF32(SubSeq(p, 11, 14)) = o.pitch
    /\ getF32(SubSeq(p, 15, 18)) = o.yaw

Home == [roll |-> homeRoll, pitch |-> homePitch, yaw |-> homeYaw]

(* C4: every frame the node writes in response to a received frame has     *)
(* source DEVICE_ID and destination the source byte of the received frame. *)
C4_ResponsesToRequester ==
    Transmitted =>
        \A i \in DOMAIN tx : WrittenSrc(tx[i]) = DEVICE_ID /\ WrittenDst(tx[i]) = sent.src

(* C5 as stated: every TelemetryResponse declares and carries 36 payload   *)
(* bytes.                                                                  *)
C5_Payload36 ==
    \A i \in DOMAIN tx :
        IsImu(tx[i]) => WrittenLen(tx[i]) = 36 /\ Len(WrittenPayload(tx[i])) = 36

(* C5, amended: every TelemetryResponse written by respondIMU declares 42  *)
(* payload bytes and carries exactly that many: u32 timestamp, u8          *)
(* orientation status, u8 motion status, then nine f32 fields roll, pitch, *)
(* yaw, vx, vy, vz, ax, ay, az.                                            *)
C5_TelemetryLayout ==
    [][ (Len(tx') = Len(tx) + 1 /\ IsImu(tx'[Len(tx')])) =>
            LET f == tx'[Len(tx')]
                p == WrittenPayload(f)
            IN  /\ WrittenLen(f) = 42
                /\ Len(p) = 42
                /\ getLE32(SubSeq(p, 1, 4)) = now
                /\ p[5] = rv_status
                /\ p[6] = la_status
                /\ IF homeSet THEN AnglesRelative(p, rpy, Home) ELSE AnglesRaw(p, rpy)
                /\ getF32s(SubSeq(p, 19, 22), VEL_SCALE) = vx
                /\ getF32s(SubSeq(p, 23, 26), VEL_SCALE) = vy
                /\ getF32s(SubSeq(p, 27, 30), VEL_SCALE) = vz
                /\ getF32s(SubSeq(p, 31, 34), ACC_SCALE) = lax
                /\ getF32s(SubSeq(p, 35, 38), ACC_SCALE) = lay
                /\ getF32s(SubSeq(p, 39, 42), ACC_SCALE) = laz ]_vars

C5_Witness ==
    /\ Drained /\ CleanRequest(MSG_GET_IMU)
    /\ Len(tx) = 1 /\ IsImu(tx[1])
    /\ Len(WrittenPayload(tx[1])) = 42
    /\ getF32s(SubSeq(WrittenPayload(tx[1]), 19, 22), VEL_SCALE) = vx
    /\ getF32s(SubSeq(WrittenPayload(tx[1]), 31, 34), ACC_SCALE) = lax
    /\ vx # 0 /\ vx # lax /\ now > 0 /\ homeSet

(* C6: while the bytes of a valid frame addressed to neither the node nor  *)
(* broadcast are consumed, nothing is written to the transport and the     *)
(* home reference, the velocity and the integrator timestamp keep their    *)
(* values.                                                                 *)
C6_OtherDestinationIgnored ==
    [][ (Transmitted /\ sent.flip = -1 /\ sent.dst \notin { DEVICE_ID, BROADCAST_ID }
         /\ rx # << >>) =>
            (tx' = << >> /\ UNCHANGED << homeVars, velVars, last_la_us >>) ]_vars

C6_Witness ==
    /\ Drained /\ Transmitted /\ sent.flip = -1
    /\ sent.dst \notin { DEVICE_ID, BROADCAST_ID }
    /\ sent.msgId = MSG_RESET_VEL
    /\ accepted = << ExpectedFrame(sent) >>
    /\ tx = << >>
    /\ vx # 0 /\ last_la_us # now

(* C7: an empty SetHome captures the latest orientation as the home        *)
(* reference, sets isSet and is answered with one ACK; a GetTelemetry      *)
(* received with a home set reports the latest orientation minus the home  *)
(* reference, wrapped, on each axis; the home reference changes only when  *)
(* a SetHome completes.                                                    *)
C7_SetHomeThenTelemetry ==
    [][ /\ (Completing(MSG_SET_HOME) /\ sent.payload = << >>) =>
              /\ homeRoll' = rpy.roll /\ homePitch' = rpy.pitch /\ homeYaw' = rpy.yaw
              /\ homeSet'
              /\ Len(tx') = 1 /\ IsAck(tx'[1])
        /\ (Completing(MSG_GET_IMU) /\ sent.payload = << >> /\ homeSet) =>
              /\ Len(tx') = 1 /\ IsImu(tx'[1])
              /\ AnglesRelative(WrittenPayload(tx'[1]), rpy, Home)
        /\ (homeVars' # homeVars) => Completing(MSG_SET_HOME) ]_vars

(* home roll 10, later roll 15, reported roll 5 *)
C7_Witness ==
    /\ Drained /\ CleanRequest(MSG_GET_IMU)
    /\ homeSet /\ homeRoll = 10 /\ homeYaw = -10
    /\ rpy.roll = 15
    /\ Len(tx) = 1 /\ IsImu(tx[1])
    /\ getF32(SubSeq(WrittenPayload(tx[1]), 7, 10)) = 5

(* C8: a valid SetHome to the node whose payload length is neither 0 nor   *)
(* 12 is answered with exactly one NACK carrying BadLength and leaves the  *)
(* home reference unchanged.                                               *)
C8_SetHomeBadLength ==
    [][ (Completing(MSG_SET_HOME) /\ Len(sent.payload) \notin { 0, 12 }) =>
            /\ Len(tx') = 1 /\ IsNack(tx'[1], ERR_BAD_LENGTH)
            /\ UNCHANGED homeVars ]_vars

C8_Witness ==
    /\ Drained /\ CleanRequest(MSG_SET_HOME)
    /\ Len(sent.payload) = 8
    /\ Len(tx) = 1 /\ IsNack(tx[1], 1)
    /\ homeSet /\ homeRoll = 10

(* C9: a valid GetTelemetry to the node is answered with exactly one NACK  *)
(* carrying BadLength when its payload is not empty and with exactly one   *)
(* TelemetryResponse when it is; orientation, acceleration, velocity and   *)
(* home state keep their values.                                           *)
C9_GetTelemetryLength ==
    [][ Completing(MSG_GET_IMU) =>
            /\ Len(tx') = 1
            /\ IF sent.payload # << >>
               THEN IsNack(tx'[1], ERR_BAD_LENGTH)
               ELSE IsImu(tx'[1])
            /\ UNCHANGED << sensorVars, velVars, homeVars >> ]_vars

C9_Witness ==
    /\ Drained /\ CleanRequest(MSG_GET_IMU)
    /\ Len(sent.payload) = 8
    /\ tx # << >> /\ IsNack(tx[1], 1) /\ Len(tx) = 1
    /\ vx # 0 /\ homeSet

(* C10: a valid empty ResetVelocity to the node zeroes the velocity, sets  *)
(* the integrator baseline to the current time and is answered with one    *)
(* ACK; one with a payload is answered with one NACK carrying BadLength    *)
(* and leaves velocity and baseline unchanged.                             *)
C10_ResetVelocity ==
    [][ Completing(MSG_RESET_VEL) =>
            /\ Len(tx') = 1
            /\ IF sent.payload = << >>
               THEN /\ vx' = 0 /\ vy' = 0 /\ vz' = 0
                    /\ last_la_us' = now
                    /\ IsAck(tx'[1])
               ELSE /\ IsNack(tx'[1], ERR_BAD_LENGTH)
                    /\ UNCHANGED << velVars, last_la_us >> ]_vars

C10_Witness ==
    /\ Drained /\ CleanRequest(MSG_RESET_VEL)
    /\ sent.payload = << >>
    /\ Len(tx) = 1 /\ IsAck(tx[1])
    /\ vx = 0 /\ vy = 0 /\ lax # 0
    /\ last_la_us = now /\ now = 2 * TIME_QUANTUM_US

(* C11: a valid frame addressed to the node whose message id is none of    *)
(* GetTelemetry, SetHome, ResetVelocity is answered with exactly one NACK  *)
(* carrying UnknownMessage, whatever its payload length (0 to 128), and    *)
(* leaves the telemetry, the velocity and the home state as they were.     *)
C11_UnknownMessage ==
    [][ (\E id \in MsgIds \ { MSG_GET_IMU, MSG_SET_HOME, MSG_RESET_VEL } : Completing(id)) =>
            /\ Len(tx') = 1 /\ IsNack(tx'[1], ERR_UNKNOWN_MSG)
            /\ UNCHANGED << sensorVars, velVars, homeVars, last_la_us >> ]_vars

C11_Witness ==
    /\ Drained /\ CleanRequest(260)
    /\ Len(sent.payload) = MAX_PAYLOAD
    /\ Len(tx) = 1 /\ IsNack(tx[1], 2)
    /\ vx # 0 /\ homeSet /\ lax # 0

(* C12: when the second checksum byte of a frame whose declared length is  *)
(* at most 128 is consumed and the received checksum differs from the      *)
(* accumulated sum, exactly one NACK carrying Malformed is written, from   *)
(* the node to the source the frame declares; the home reference, the      *)
(* velocity and the integrator timestamp keep their values and the parser  *)
(* is back in Seeking.                                                     *)
C12_ChecksumMismatch ==
    [][ (ps = "PS_CK1" /\ rx # << >> /\ pl_len <= MAX_PAYLOAD
         /\ recv_ck + 256 * Head(rx) # calc_ck) =>
            /\ Len(tx') = Len(tx) + 1
            /\ SubSeq(tx', 1, Len(tx)) = tx
            /\ IsNack(tx'[Len(tx')], ERR_MALFORMED)
            /\ WrittenSrc(tx'[Len(tx')]) = DEVICE_ID
            /\ WrittenDst(tx'[Len(tx')]) = src_id
            /\ (Transmitted /\ sent.flip >= 8 * (8 + Len(sent.payload)) /\ Len(rx) = 1) =>
                    WrittenDst(tx'[Len(tx')]) = sent.src
            /\ UNCHANGED << homeVars, velVars, last_la_us >>
            /\ ps' = "PS_FIND_S1" ]_vars

C12_Witness ==
    /\ Drained /\ Transmitted
    /\ sent.flip = 8 * 9 /\ sent.src = 7 /\ sent.msgId = MSG_GET_IMU
    /\ accepted = << >>
    /\ Len(tx) = 1 /\ IsNack(tx[1], 3) /\ WrittenDst(tx[1]) = 7
    /\ ps = "PS_FIND_S1"
    /\ vx # 0 /\ homeSet

(* the angle is in the half-open interval (-180, 180] *)
InHalfOpenTurn(a) == a > -180 /\ a <= 180

(* C13: with a home reference set, each of the roll, pitch and yaw values  *)
(* of a TelemetryResponse lies in (-180, 180], and is 0 on every axis when *)
(* the orientation equals the home reference.                              *)
C13_HalfOpenWrap ==
    [][ (Len(tx') = Len(tx) + 1 /\ IsImu(tx'[Len(tx')]) /\ homeSet) =>
            LET p == WrittenPayload(tx'[Len(tx')])
                r == getF32(SubSeq(p, 7, 10))
                q == getF32(SubSeq(p, 11, 14))
                y == getF32(SubSeq(p, 15, 18))
            IN  /\ InHalfOpenTurn(r) /\ InHalfOpenTurn(q) /\ InHalfOpenTurn(y)
                /\ (rpy = Home) => (r = 0 /\ q = 0 /\ y = 0) ]_vars

(* C14: homeSet is false from start-up until a SetHome completes, and a    *)
(* GetTelemetry received while it is false reports the roll, pitch and yaw *)
(* of the latest orientation sample as they are.                           *)
C14_RawBeforeSetHome ==
    [][ /\ (Completing(MSG_GET_IMU) /\ sent.payload = << >> /\ ~homeSet) =>
              /\ Len(tx') = 1 /\ IsImu(tx'[1])
              /\ AnglesRaw(WrittenPayload(tx'[1]), rpy)
        /\ (~homeSet /\ homeSet') => Completing(MSG_SET_HOME) ]_vars

(* sample roll 10 reported as roll 10 *)
C14_Witness ==
    /\ Drained /\ CleanRequest(MSG_GET_IMU) /\ sent.payload = << >>
    /\ ~homeSet
    /\ rpy.roll = 10 /\ rpy.yaw = -10
    /\ Len(tx) = 1 /\ IsImu(tx[1])
    /\ getF32(SubSeq(WrittenPayload(tx[1]), 7, 10)) = 10
    /\ getF32(SubSeq(WrittenPayload(tx[1]), 15, 18)) = -10

(* C15: when the destination byte of a header that declares more than 128  *)
(* payload bytes is consumed, the parser is in Seeking after that byte,    *)
(* the payload buffer is not written, nothing is sent, and the telemetry,  *)
(* the velocity and the home state keep their values.                      *)
C15_OversizeDropped ==
    [][ (ps = "PS_DST" /\ rx # << >> /\ pl_len > 128) =>
            /\ ps' = "PS_FIND_S1"
            /\ UNCHANGED << payload_buf, tx, sensorVars, velVars, homeVars, last_la_us >> ]_vars

C15_Witness ==
    /\ Transmitted /\ sent.prefix = OversizeHeader
    /\ Len(rx) = FrameLen(sent)
    /\ ps = "PS_FIND_S1" /\ pl_len = 129 /\ msg_id = MSG_RESET_VEL /\ dst_id = DEVICE_ID
    /\ tx = << >> /\ accepted = << >>
    /\ vx # 0 /\ last_la_us # now
    /\ \A i \in DOMAIN payload_buf : payload_buf[i] = 0

(* C16: once the second checksum byte of a frame is consumed, whether the  *)
(* checksum matched or not and whatever was dispatched, the parser is in   *)
(* Seeking with length, message id, source, destination, received and      *)
(* accumulated checksum and payload index all zero.                        *)
C16_ResetAfterChecksum ==
    [][ (ps = "PS_CK1" /\ rx # << >>) =>
            /\ ps' = "PS_FIND_S1"
            /\ pl_len' = 0 /\ msg_id' = 0 /\ src_id' = 0 /\ dst_id' = 0
            /\ recv_ck' = 0 /\ calc_ck' = 0 /\ payload_idx' = 0 ]_vars

C16_Witness ==
    /\ Drained /\ CleanRequest(MSG_SET_HOME) /\ sent.payload = HomePayload
    /\ accepted = << ExpectedFrame(sent) >>
    /\ ps = "PS_FIND_S1"
    /\ pl_len = 0 /\ msg_id = 0 /\ src_id = 0 /\ dst_id = 0
    /\ recv_ck = 0 /\ calc_ck = 0 /\ payload_idx = 0
    /\ payload_buf[3] = 67

(* one maximum frame: header, payload, checksum *)
MaxFrame == 8 + MAX_PAYLOAD + 2

(* header bytes the parser still expects, the one it waits for included *)
HeaderLeft ==
    CASE ps = "PS_FIND_S2" -> 7
      [] ps = "PS_LEN0" -> 6
      [] ps = "PS_LEN1" -> 5
      [] ps = "PS_ID0" -> 4
      [] ps = "PS_ID1" -> 3
      [] ps = "PS_SRC" -> 2
      [] ps = "PS_DST" -> 1
      [] OTHER -> 0

(* the most bytes the parser can still consume before it is in Seeking *)
BytesToSeeking ==
    CASE ps = "PS_FIND_S1" -> 0
      [] ps \in { "PS_FIND_S2", "PS_LEN0", "PS_LEN1" } -> HeaderLeft + MAX_PAYLOAD + 2
      [] ps \in { "PS_ID0", "PS_ID1", "PS_SRC", "PS_DST" } ->
            HeaderLeft + (IF pl_len > MAX_PAYLOAD THEN 0 ELSE pl_len + 2)
      [] ps = "PS_PAYLOAD" -> pl_len - payload_idx + 2
      [] ps = "PS_CK0" -> 2
      [] ps = "PS_CK1" -> 1

(* C17: outside Seeking the parser is at most one maximum frame, less the  *)
(* first marker already consumed, away from Seeking, and every byte it     *)
(* consumes brings it to Seeking or one byte closer; whatever its state,   *)
(* the parser can consume the next available byte, and does so in the step *)
(* that follows.                                                           *)
C17_BoundedResync ==
    /\ [](ps # "PS_FIND_S1" => (BytesToSeeking >= 1 /\ BytesToSeeking <= MaxFrame - 1))
    /\ [][ (ps # "PS_FIND_S1" /\ rx' # rx) =>
              (ps' = "PS_FIND_S1" \/ BytesToSeeking' < BytesToSeeking) ]_vars
    /\ [](rx # << >> => ENABLED pollSerial)
    /\ [][ rx # << >> => rx' = Tail(rx) ]_vars

C17_Witness ==
    /\ Transmitted /\ Drained
    /\ sent.prefix = << START2, 0 >> /\ Len(sent.payload) = MAX_PAYLOAD
    /\ ps = "PS_FIND_S1"
    /\ accepted = << ExpectedFrame(sent) >>

(* ---------------- properties of the integrator ---------------- *)
(* the step latches the linear-acceleration sample s, which differs from   *)
(* the sample latched before                                               *)
LatchesSample(s) ==
    /\ rx = << >>
    /\ << lax, lay, laz, la_status >> # << s.x, s.y, s.z, s.status >>
    /\ << lax', lay', laz', la_status' >> = << s.x, s.y, s.z, s.status >>

(* C18: an acceleration sample is integrated into the velocity unless the  *)
(* time since the previous baseline exceeds 0.5 s (at exactly 0.5 s it is  *)
(* integrated); beyond 0.5 s the velocity keeps its value; in every case   *)
(* the sample and its status are recorded and the baseline becomes the     *)
(* sample's time.                                                          *)
C18_IntegratedUpToHalfSecond ==
    [][ \A s \in LASamples : LatchesSample(s) =>
            LET dtUs == now - last_la_us
            IN  /\ (dtUs <= 500000) =>
                      /\ vx' = IntegrateAxis(vx, s.x, dtUs)
                      /\ vy' = IntegrateAxis(vy, s.y, dtUs)
                      /\ vz' = IntegrateAxis(vz, s.z, dtUs)
                /\ (dtUs > 500000) => UNCHANGED velVars
                /\ last_la_us' = now ]_vars

(* the step is an integrated sample of zero acceleration: the baseline     *)
(* moves to the current time, 0 < dt < 0.5 s                               *)
StillSampleIntegrated ==
    /\ lax' = 0 /\ lay' = 0 /\ laz' = 0
    /\ last_la_us' = now /\ now' = now
    /\ now - last_la_us > 0 /\ now - last_la_us < 500000

SameSign(a, b) == (a >= 0 /\ b >= 0) \/ (a <= 0 /\ b <= 0)

(* C19 as stated: with the acceleration held at zero the velocity of an    *)
(* axis keeps its sign, never grows in magnitude and reaches exactly zero  *)
(* within a bounded number of samples; it can reach zero only if no sample *)
(* leaves a non-zero velocity as it was.                                   *)
C19_DecayReachesZero ==
    [][ StillSampleIntegrated =>
            /\ SameSign(vx, vx') /\ Abs(vx') <= Abs(vx)
            /\ (vx # 0) => (vx' # vx) ]_vars

(* C19, amended: with the acceleration held at zero the velocity of an     *)
(* axis keeps its sign and never grows in magnitude from one integrated    *)
(* sample to the next, and a velocity of zero stays zero.                  *)
C19_DecayMonotone ==
    [][ StillSampleIntegrated =>
            /\ SameSign(vx, vx') /\ Abs(vx') <= Abs(vx)
            /\ SameSign(vy, vy') /\ Abs(vy') <= Abs(vy)
            /\ vz' = 0 ]_vars

(* after two samples: 40 units have decayed to 37 and to 34, -7 units to   *)
(* -6, where they stay                                                     *)
C19_Witness ==
    /\ last_la_us = now /\ now = 2 * TIME_QUANTUM_US
    /\ vy = -6 /\ vx = 34 /\ vz = 0

(* the step is a linear-acceleration sample taken less than 0.5 s after    *)
(* the baseline, with no byte consumed and nothing written: it latches the *)
(* sample, moves the baseline and leaves the velocity that integrating the *)
(* sample over the elapsed time gives                                      *)
IntegratedSample ==
    /\ rx = << >> /\ rx' = << >> /\ tx' = tx
    /\ \E s \in LASamples :
            << lax', lay', laz', la_status' >> = << s.x, s.y, s.z, s.status >>
    /\ now - last_la_us < 500000
    /\ last_la_us' = now
    /\ vx' = IntegrateAxis(vx, lax', now - last_la_us)
    /\ vy' = IntegrateAxis(vy, lay', now - last_la_us)
    /\ vz' = IntegrateAxis(vz, laz', now - last_la_us)

(* C20: the velocity changes only in a step that integrates a              *)
(* linear-acceleration sample or that completes an empty ResetVelocity     *)
(* addressed to the node, which zeroes it; every other step (orientation   *)
(* samples, sensor resets, GetTelemetry, SetHome, unknown and NACKed       *)
(* frames, frames for other nodes, oversized and partial frames) leaves    *)
(* it as it was.                                                           *)
C20_VelocityFrame ==
    [][ (velVars' # velVars) =>
            \/ IntegratedSample
            \/ /\ Completing(MSG_RESET_VEL) /\ sent.payload = << >>
               /\ vx' = 0 /\ vy' = 0 /\ vz' = 0 ]_vars

C20_Witness ==
    /\ Drained /\ CleanRequest(MSG_RESET_VEL) /\ sent.payload = HomePayload
    /\ Len(tx) = 1 /\ IsNack(tx[1], ERR_BAD_LENGTH)
    /\ vx # 0 /\ vy # 0
    /\ rpy.roll = 15 /\ homeSet

(* ---------------- properties of the payload buffer ---------------- *)
(* C21: the parser reads payload bytes only while the declared length is   *)
(* between 1 and 128 and the payload index is below it; the byte consumed  *)
(* in that state is stored at the payload index, which is below 128, every *)
(* other element of the 128-byte buffer keeps its value, and no other      *)
(* state of the parser writes the buffer.                                  *)
C21_BoundedMemory ==
    /\ [](DOMAIN payload_buf = 0..(MAX_PAYLOAD - 1))
    /\ [](ps = "PS_PAYLOAD" =>
            (pl_len >= 1 /\ pl_len <= 128 /\ payload_idx >= 0 /\ payload_idx < pl_len))
    /\ [][ IF ps = "PS_PAYLOAD" /\ rx' # rx
           THEN /\ payload_idx < 128
                /\ payload_buf'[payload_idx] = Head(rx)
                /\ \A i \in 0..127 : i # payload_idx => payload_buf'[i] = payload_buf[i]
           ELSE payload_buf' = payload_buf ]_vars

(* the last byte of a payload of the maximum length has been stored *)
C21_Witness ==
    /\ Transmitted /\ sent.flip = -1 /\ sent.payload = FullPayload
    /\ ps = "PS_CK0" /\ pl_len = MAX_PAYLOAD /\ payload_idx = MAX_PAYLOAD
    /\ payload_buf[MAX_PAYLOAD - 1] = FullPayload[MAX_PAYLOAD]
    /\ payload_buf[0] = FullPayload[1]

(* ---------------- request and response ---------------- *)
(* the parser consumes a byte in this step *)
ConsumesByte == rx # << >> /\ rx' = Tail(rx)

(* exactly one frame, a telemetry response, an ACK or a NACK, is written   *)
(* in this step, whole and framed, after what was written before           *)
WritesOneResponse ==
    /\ Len(tx') = Len(tx) + 1
    /\ SubSeq(tx', 1, Len(tx)) = tx
    /\ LET f == tx'[Len(tx')]
       IN  /\ Len(f) = 8 + WrittenLen(f) + 2
           /\ f[1] = START1 /\ f[2] = START2
           /\ WrittenSrc(f) = DEVICE_ID
           /\ \/ IsImu(f) /\ WrittenLen(f) = 42
              \/ IsAck(f)
              \/ \E e \in { ERR_BAD_LENGTH, ERR_UNKNOWN_MSG } : IsNack(f, e)

(* C22: the byte that completes a frame with a matching checksum, a        *)
(* declared length of at most 128 and the node's identifier or broadcast   *)
(* as destination writes exactly one frame (a telemetry response, an ACK   *)
(* or a NACK) in the step that consumes it, before the next byte is taken; *)
(* so does the last byte of every valid request sent to the node or to     *)
(* broadcast and parsed from Seeking; a byte consumed in any state other   *)
(* than the last checksum byte's writes nothing.                           *)
C22_RequestResponsePairing ==
    [][ /\ ( /\ ConsumesByte /\ ps = "PS_CK1"
             /\ calc_ck = recv_ck + 256 * Head(rx)
             /\ dst_id \in { DEVICE_ID, BROADCAST_ID } ) =>
                (pl_len <= 128 /\ WritesOneResponse)
        /\ ( /\ \E id \in MsgIds : Completing(id)
             /\ startPs = "PS_FIND_S1" /\ ConsumesByte ) =>
                (Len(tx) = 0 /\ ps = "PS_CK1" /\ WritesOneResponse)
        /\ (ConsumesByte /\ ps # "PS_CK1") => tx' = tx ]_vars

(* a velocity reset sent to broadcast has been answered by one ACK *)
C22_Witness ==
    /\ \E id \in MsgIds : CleanRequest(id)
    /\ sent.dst = BROADCAST_ID /\ sent.msgId = MSG_RESET_VEL
    /\ startPs = "PS_FIND_S1" /\ Drained /\ ps = "PS_FIND_S1"
    /\ Len(tx) = 1 /\ IsAck(tx[1])
    /\ accepted = << ExpectedFrame(sent) >>

====
